---- MODULE Spec2Model ----
(***************************************************************************)
(* A model of FitnessSystem (src/test7.py): the in-memory stores (users,   *)
(* meals_database, workouts_database), the menu handlers that change them  *)
(* and the engine operations that read them.                               *)
(*                                                                         *)
(* Modelling conventions                                                   *)
(*  - A Python list is a sequence; an object reference held in a list is   *)
(*    the 1-based position of the object in the store it lives in          *)
(*    (meals_database, workouts_database), so two objects with equal       *)
(*    fields stay distinguishable, as they are under Python's identity     *)
(*    comparison (Meal and Workout define no __eq__).  Python's 0-based    *)
(*    index k is position k + 1.                                           *)
(*  - float quantities (calories, protein, calories_burn) range over small *)
(*    naturals; the comparisons against target_calories * 1.1 and          *)
(*    target_calories * 0.3 / 4 are made exactly, scaled by 10 and by 40.  *)
(*  - user ids (strings ordered by <) are small integers.                  *)
(*  - fields that no modelled operation tells apart (names, carbs, fat,    *)
(*    user age/weight/height, health metrics) are left out of the          *)
(*    records; a timestamp is the day number of datetime.now().            *)
(*  - a JSON string made from a value is a record wrapping the value       *)
(*    ([iso |-> t] for isoformat(), [ymd |-> d] for str(date)), so that    *)
(*    what is written and what is parsed back are told apart.              *)
(*  - ret holds what the last handler computed or displayed; err is the    *)
(*    uncaught exception that ended the process, "none" while it runs.     *)
(***************************************************************************)
EXTENDS Integers, Sequences, FiniteSets, TLC

VARIABLES
    users,              \* FitnessSystem.users: user_id -> User
    meals_database,     \* FitnessSystem.meals_database
    workouts_database,  \* FitnessSystem.workouts_database
    today,              \* datetime.now().date(), as a day number
    nextAid,            \* identity of the next Activity object constructed
    ret,                \* the last handler's call and result
    err,                \* "none", or the exception that ended the process
    logged,             \* history: the activities logged, per user
    deleted,            \* history: the activities reported deleted
    files               \* users.json, meals.json and workouts.json

vars == <<users, meals_database, workouts_database, today, nextAid, ret, err,
          logged, deleted, files>>

(***************************************************************************)
(* Bounds of the model.                                                    *)
(***************************************************************************)
MaxUserId == 4       \* user ids are 1..MaxUserId
MaxMeals == 3        \* entries of meals_database
MaxWorkouts == 3     \* entries of workouts_database
MaxBudget == 3       \* max_duration asked of the scheduler
MaxDay == 2          \* days the clock moves on
MaxActivities == 3   \* Activity objects constructed
MaxActUsers == 1     \* users of the activity log specification

UserIds == 1..MaxUserId
\* ids a handler may be asked for: the ones that can exist and two that never do
TargetIds == 0..(MaxUserId + 1)
Difficulties == {"easy", "hard"}

NoRet == [op |-> "none"]

(***************************************************************************)
(* Helpers for Python's list operations.                                   *)
(***************************************************************************)
Range(s) == {s[k] : k \in DOMAIN s}

\* list.pop(k) / del list[k], k a 1-based position
RemoveAt(s, k) == [x \in 1..(Len(s) - 1) |-> IF x < k THEN s[x] ELSE s[x + 1]]

\* list(range(len(s))): the references to the entries of a store, in order
Refs(s) == [k \in 1..Len(s) |-> k]

RECURSIVE SumSeq(_)
SumSeq(s) == IF s = <<>> THEN 0 ELSE s[1] + SumSeq(Tail(s))

RECURSIVE SumSet(_, _)
SumSet(S, f) ==
    IF S = {} THEN 0
    ELSE LET x == CHOOSE y \in S : TRUE IN f[x] + SumSet(S \ {x}, f)

\* the builtin sorted() over a set of mutually comparable keys: ascending
RECURSIVE sorted(_)
sorted(S) ==
    IF S = {} THEN <<>>
    ELSE LET m == CHOOSE x \in S : \A y \in S : x <= y
         IN <<m>> \o sorted(S \ {m})

\* the builtin sorted(list, key=...): stable, ascending in the key.
\* before is the set of pairs <<a, b>> with key(a) < key(b); an element is
\* placed after every element already placed whose key is not greater.
RECURSIVE InsertStable(_, _, _)
InsertStable(s, x, before) ==
    IF s = <<>> THEN <<x>>
    ELSE IF <<x, s[Len(s)]>> \in before
         THEN Append(InsertStable(SubSeq(s, 1, Len(s) - 1), x, before), s[Len(s)])
         ELSE Append(s, x)

RECURSIVE StableSort(_, _)
StableSort(s, before) ==
    IF s = <<>> THEN <<>>
    ELSE InsertStable(StableSort(SubSeq(s, 1, Len(s) - 1), before), s[Len(s)], before)

(***************************************************************************)
(* Directory Index: binary_search_user.                                    *)
(***************************************************************************)
\* a plausible slip: the loop runs while left < right, never looking at the
\* last remaining candidate
RECURSIVE SearchLoopStrict(_, _, _, _)
SearchLoopStrict(sorted_users, user_id, left, right) ==
    IF ~(left < right) THEN FALSE
    ELSE LET mid == (left + right) \div 2 IN
         IF sorted_users[mid + 1] = user_id THEN TRUE
         ELSE IF sorted_users[mid + 1] < user_id
              THEN SearchLoopStrict(sorted_users, user_id, mid + 1, right)
              ELSE SearchLoopStrict(sorted_users, user_id, left, mid - 1)

\* the while loop; left, right and mid are Python's 0-based indices
RECURSIVE SearchLoop(_, _, _, _)
SearchLoop(sorted_users, user_id, left, right) ==
    IF ~(left <= right) THEN FALSE
    ELSE LET mid == (left + right) \div 2 IN
         IF sorted_users[mid + 1] = user_id THEN TRUE
         ELSE IF sorted_users[mid + 1] < user_id
              THEN SearchLoop(sorted_users, user_id, mid + 1, right)
              ELSE SearchLoop(sorted_users, user_id, left, mid - 1)

binary_search_user(us, user_id) ==
    LET sorted_users == sorted(DOMAIN us)
    IN SearchLoop(sorted_users, user_id, 0, Len(sorted_users) - 1)

(***************************************************************************)
(* Meal Sorter: merge_sort_meals over references into a meal store db.     *)
(***************************************************************************)
\* a plausible slip: the rest of the right half is never appended
RECURSIVE MergeLoopDropRight(_, _, _, _, _, _)
MergeLoopDropRight(db, left, right, i, j, result) ==
    IF i < Len(left) /\ j < Len(right)
    THEN IF db[left[i + 1]].calories <= db[right[j + 1]].calories
         THEN MergeLoopDropRight(db, left, right, i + 1, j, Append(result, left[i + 1]))
         ELSE MergeLoopDropRight(db, left, right, i, j + 1, Append(result, right[j + 1]))
    ELSE result \o SubSeq(left, i + 1, Len(left))

\* a plausible slip: the comparison is strict, so a tie takes the right half
RECURSIVE MergeLoopStrict(_, _, _, _, _, _)
MergeLoopStrict(db, left, right, i, j, result) ==
    IF i < Len(left) /\ j < Len(right)
    THEN IF db[left[i + 1]].calories < db[right[j + 1]].calories
         THEN MergeLoopStrict(db, left, right, i + 1, j, Append(result, left[i + 1]))
         ELSE MergeLoopStrict(db, left, right, i, j + 1, Append(result, right[j + 1]))
    ELSE result \o SubSeq(left, i + 1, Len(left)) \o SubSeq(right, j + 1, Len(right))

\* the while loop of _merge_meals and the two extend calls after it;
\* i and j are Python's 0-based indices
RECURSIVE MergeLoop(_, _, _, _, _, _)
MergeLoop(db, left, right, i, j, result) ==
    IF i < Len(left) /\ j < Len(right)
    THEN IF db[left[i + 1]].calories <= db[right[j + 1]].calories
         THEN MergeLoop(db, left, right, i + 1, j, Append(result, left[i + 1]))
         ELSE MergeLoop(db, left, right, i, j + 1, Append(result, right[j + 1]))
    ELSE result \o SubSeq(left, i + 1, Len(left)) \o SubSeq(right, j + 1, Len(right))

merge_meals(db, left, right) == MergeLoop(db, left, right, 0, 0, <<>>)

RECURSIVE merge_sort_meals(_, _)
merge_sort_meals(db, meals) ==
    IF Len(meals) <= 1 THEN meals
    ELSE LET mid == Len(meals) \div 2
             left == merge_sort_meals(db, SubSeq(meals, 1, mid))
             right == merge_sort_meals(db, SubSeq(meals, mid + 1, Len(meals)))
         IN merge_meals(db, left, right)

(***************************************************************************)
(* Workout Sorter: quick_sort_workouts over references into a workout      *)
(* store db.                                                               *)
(***************************************************************************)
\* a plausible slip: only the pivot itself is kept in the middle bucket
PartitionPivotOnly(db, workouts) ==
    LET pivot == workouts[(Len(workouts) \div 2) + 1] IN
    [left |-> SelectSeq(workouts, LAMBDA x : db[x].calories_burn > db[pivot].calories_burn),
     middle |-> <<pivot>>,
     right |-> SelectSeq(workouts, LAMBDA x : db[x].calories_burn < db[pivot].calories_burn)]

\* a plausible slip: the classic two-way partition, the pivot's ties going
\* to the left bucket
PartitionTiesLeft(db, workouts) ==
    LET pivot == workouts[(Len(workouts) \div 2) + 1] IN
    [left |-> SelectSeq(workouts, LAMBDA x :
                  x # pivot /\ db[x].calories_burn >= db[pivot].calories_burn),
     middle |-> <<pivot>>,
     right |-> SelectSeq(workouts, LAMBDA x : db[x].calories_burn < db[pivot].calories_burn)]

\* the pivot and the three list comprehensions
Partition(db, workouts) ==
    LET pivot == workouts[(Len(workouts) \div 2) + 1] IN
    [left |-> SelectSeq(workouts, LAMBDA x : db[x].calories_burn > db[pivot].calories_burn),
     middle |-> SelectSeq(workouts, LAMBDA x : db[x].calories_burn = db[pivot].calories_burn),
     right |-> SelectSeq(workouts, LAMBDA x : db[x].calories_burn < db[pivot].calories_burn)]

RECURSIVE quick_sort_workouts(_, _)
quick_sort_workouts(db, workouts) ==
    IF Len(workouts) <= 1 THEN workouts
    ELSE LET p == Partition(db, workouts)
         IN quick_sort_workouts(db, p.left) \o p.middle \o quick_sort_workouts(db, p.right)

(***************************************************************************)
(* Greedy Diet Planner: greedy_diet_planner over the meal store db.        *)
(***************************************************************************)
\* key(a) < key(b) for key = calories / protein if protein > 0 else inf,
\* compared exactly (cross-multiplied)
RatioBefore(db) ==
    {ab \in (1..Len(db)) \X (1..Len(db)) :
        LET a == db[ab[1]]
            b == db[ab[2]]
        IN IF a.protein > 0
           THEN IF b.protein > 0
                THEN a.calories * b.protein < b.calories * a.protein
                ELSE TRUE
           ELSE FALSE}

Abs(x) == IF x < 0 THEN -x ELSE x

\* key(a) < key(b) for key = abs(calories - remaining_calories)
ClosestBefore(db, remaining_calories) ==
    {ab \in (1..Len(db)) \X (1..Len(db)) :
        Abs(db[ab[1]].calories - remaining_calories)
            < Abs(db[ab[2]].calories - remaining_calories)}

\* a plausible slip: the first loop tests the calories only
RECURSIVE Phase1CaloriesOnly(_, _, _, _, _, _, _)
Phase1CaloriesOnly(db, sorted_meals, target_calories, k, recommended_meals, current_calories, current_protein) ==
    IF k >= Len(sorted_meals)
    THEN [recommended_meals |-> recommended_meals,
          current_calories |-> current_calories,
          current_protein |-> current_protein]
    ELSE LET meal == sorted_meals[k + 1] IN
         IF current_calories + db[meal].calories <= target_calories
         THEN Phase1CaloriesOnly(db, sorted_meals, target_calories, k + 1,
                                 Append(recommended_meals, meal),
                                 current_calories + db[meal].calories,
                                 current_protein + db[meal].protein)
         ELSE Phase1CaloriesOnly(db, sorted_meals, target_calories, k + 1,
                                 recommended_meals, current_calories, current_protein)

\* the first for loop; k is the 0-based position in sorted_meals.
\* current_protein < target_calories * 0.3 / 4 is compared scaled by 40.
RECURSIVE Phase1(_, _, _, _, _, _, _)
Phase1(db, sorted_meals, target_calories, k, recommended_meals, current_calories, current_protein) ==
    IF k >= Len(sorted_meals)
    THEN [recommended_meals |-> recommended_meals,
          current_calories |-> current_calories,
          current_protein |-> current_protein]
    ELSE LET meal == sorted_meals[k + 1] IN
         IF /\ current_calories + db[meal].calories <= target_calories
            /\ 40 * current_protein < 3 * target_calories
         THEN Phase1(db, sorted_meals, target_calories, k + 1,
                     Append(recommended_meals, meal),
                     current_calories + db[meal].calories,
                     current_protein + db[meal].protein)
         ELSE Phase1(db, sorted_meals, target_calories, k + 1,
                     recommended_meals, current_calories, current_protein)

\* a plausible slip: the meals already recommended are not filtered out
RemainingMealsAll(sorted_meals, recommended_meals) == sorted_meals

\* [m for m in sorted_meals if m not in recommended_meals] (identity)
RemainingMeals(sorted_meals, recommended_meals) ==
    SelectSeq(sorted_meals, LAMBDA m : m \notin Range(recommended_meals))

\* a plausible slip: the meal alone is held against the allowance
FitsAllowanceAlone(current_calories, calories, target_calories) ==
    10 * calories <= 11 * target_calories

\* current_calories + meal.calories <= target_calories * 1.1, scaled by 10
FitsAllowance(current_calories, calories, target_calories) ==
    10 * (current_calories + calories) <= 11 * target_calories

\* a plausible slip: the second loop stops at the first meal that does not fit
RECURSIVE Phase2StopAtMisfit(_, _, _, _, _, _)
Phase2StopAtMisfit(db, candidates, target_calories, k, recommended_meals, current_calories) ==
    IF k >= Len(candidates) THEN recommended_meals
    ELSE LET meal == candidates[k + 1] IN
         IF FitsAllowance(current_calories, db[meal].calories, target_calories)
         THEN Phase2StopAtMisfit(db, candidates, target_calories, k + 1,
                                 Append(recommended_meals, meal),
                                 current_calories + db[meal].calories)
         ELSE recommended_meals

\* the second for loop; k is the 0-based position in the re-sorted remainder
RECURSIVE Phase2(_, _, _, _, _, _)
Phase2(db, candidates, target_calories, k, recommended_meals, current_calories) ==
    IF k >= Len(candidates) THEN recommended_meals
    ELSE LET meal == candidates[k + 1] IN
         IF FitsAllowance(current_calories, db[meal].calories, target_calories)
         THEN Phase2(db, candidates, target_calories, k + 1,
                     Append(recommended_meals, meal),
                     current_calories + db[meal].calories)
         ELSE Phase2(db, candidates, target_calories, k + 1,
                     recommended_meals, current_calories)

greedy_diet_planner(db, target_calories) ==
    LET sorted_meals == StableSort(Refs(db), RatioBefore(db))
        p1 == Phase1(db, sorted_meals, target_calories, 0, <<>>, 0, 0)
        remaining_calories == target_calories - p1.current_calories
    IN IF remaining_calories > 0
       THEN LET remaining_meals == RemainingMeals(sorted_meals, p1.recommended_meals)
            IN Phase2(db,
                      StableSort(remaining_meals, ClosestBefore(db, remaining_calories)),
                      target_calories, 0, p1.recommended_meals, p1.current_calories)
       ELSE p1.recommended_meals

(***************************************************************************)
(* Bounded Workout Scheduler: dp_workout_scheduler over the workout store. *)
(***************************************************************************)
\* a plausible slip: the difficulty filter is left out
SuitableWorkoutsAll(db, difficulty) == Refs(db)

\* [w for w in self.workouts_database if w.difficulty == difficulty]
SuitableWorkouts(db, difficulty) ==
    SelectSeq(Refs(db), LAMBDA w : db[w].difficulty = difficulty)

\* the dp table after the two nested loops.  Row 0 and column 0 keep the 0
\* they were initialised with: the loops run i over 1..n and j over
\* 1..max_duration.
DpTable(db, suitable_workouts, max_duration) ==
    LET n == Len(suitable_workouts)
        dp[i \in 0..n, j \in 0..max_duration] ==
            IF i = 0 \/ j = 0 THEN 0
            ELSE LET workout == db[suitable_workouts[i]] IN
                 IF workout.duration <= j
                 THEN IF workout.calories_burn + dp[i - 1, j - workout.duration] > dp[i - 1, j]
                      THEN workout.calories_burn + dp[i - 1, j - workout.duration]
                      ELSE dp[i - 1, j]
                 ELSE dp[i - 1, j]
    IN dp

\* a plausible slip: a workout is marked selected whenever it fits
SelectedTableFitsOnly(db, suitable_workouts, max_duration) ==
    LET n == Len(suitable_workouts)
    IN [i \in 0..n, j \in 0..max_duration |->
           IF i = 0 \/ j = 0 THEN FALSE
           ELSE db[suitable_workouts[i]].duration <= j]

\* the selected table after the two nested loops
SelectedTable(db, suitable_workouts, max_duration) ==
    LET n == Len(suitable_workouts)
        dp == DpTable(db, suitable_workouts, max_duration)
    IN [i \in 0..n, j \in 0..max_duration |->
           IF i = 0 \/ j = 0 THEN FALSE
           ELSE LET workout == db[suitable_workouts[i]] IN
                /\ workout.duration <= j
                /\ workout.calories_burn + dp[i - 1, j - workout.duration] > dp[i - 1, j]]

\* a plausible slip: the remaining duration is not reduced
RECURSIVE BacktrackKeepBudget(_, _, _, _, _, _)
BacktrackKeepBudget(db, suitable_workouts, selected, i, j, result) ==
    IF ~(i > 0 /\ j > 0) THEN result
    ELSE IF selected[i, j]
         THEN BacktrackKeepBudget(db, suitable_workouts, selected, i - 1, j,
                                  Append(result, suitable_workouts[i]))
         ELSE BacktrackKeepBudget(db, suitable_workouts, selected, i - 1, j, result)

\* a plausible slip: each selected workout is put at the front of the result
RECURSIVE BacktrackPrepend(_, _, _, _, _, _)
BacktrackPrepend(db, suitable_workouts, selected, i, j, result) ==
    IF ~(i > 0 /\ j > 0) THEN result
    ELSE IF selected[i, j]
         THEN BacktrackPrepend(db, suitable_workouts, selected, i - 1,
                               j - db[suitable_workouts[i]].duration,
                               <<suitable_workouts[i]>> \o result)
         ELSE BacktrackPrepend(db, suitable_workouts, selected, i - 1, j, result)

\* the backtracking while loop
RECURSIVE Backtrack(_, _, _, _, _, _)
Backtrack(db, suitable_workouts, selected, i, j, result) ==
    IF ~(i > 0 /\ j > 0) THEN result
    ELSE IF selected[i, j]
         THEN Backtrack(db, suitable_workouts, selected, i - 1,
                        j - db[suitable_workouts[i]].duration,
                        Append(result, suitable_workouts[i]))
         ELSE Backtrack(db, suitable_workouts, selected, i - 1, j, result)

dp_workout_scheduler(db, max_duration, difficulty) ==
    LET suitable_workouts == SuitableWorkouts(db, difficulty)
        n == Len(suitable_workouts)
    IN IF n = 0 THEN <<>>
       ELSE Backtrack(db, suitable_workouts,
                      SelectedTable(db, suitable_workouts, max_duration),
                      n, max_duration, <<>>)

(***************************************************************************)
(* Users, activity log and the Sliding-Window Progress Aggregator.         *)
(***************************************************************************)
\* deque(maxlen=10)
RecentMaxLen == 10

\* User.__init__
NewUser(user_id) ==
    [user_id |-> user_id,
     activity_log |-> <<>>,
     recent_activities |-> <<>>,
     diet_plan |-> <<>>,
     workout_plan |-> <<>>]

\* a plausible slip: a plain list, which keeps every entry
DequeAppendUnbounded(d, x) == Append(d, x)

\* deque.append on a deque with maxlen: the oldest entry leaves a full deque
DequeAppend(d, x) ==
    IF Len(d) >= RecentMaxLen THEN Append(Tail(d), x) ELSE Append(d, x)

\* defaultdict(list)[date].append(activity)
LogAppend(log, date, activity) ==
    IF date \in DOMAIN log
    THEN [log EXCEPT ![date] = Append(@, activity)]
    ELSE [d \in DOMAIN log \cup {date} |-> IF d = date THEN <<activity>> ELSE log[d]]

\* the listing of delete_activity_input: (date, activity) pairs over
\* sorted(user.activity_log.items()), each date's list in its own order
RECURSIVE ListActivities(_, _)
ListActivities(log, dates) ==
    IF dates = <<>> THEN <<>>
    ELSE [k \in 1..Len(log[dates[1]]) |->
             [date |-> dates[1], activity |-> log[dates[1]][k]]]
         \o ListActivities(log, Tail(dates))

activities_list(log) == ListActivities(log, sorted(DOMAIN log))

\* defaultdict(list).__getitem__: reading a key that is missing inserts it
\* with an empty list
DefaultGet(log, date) ==
    IF date \in DOMAIN log THEN log
    ELSE [d \in DOMAIN log \cup {date} |-> IF d = date THEN <<>> ELSE log[d]]

\* a plausible slip: the loop reads activity_log[current_date] without the
\* membership test, and the defaultdict grows a key for every date it scans
RECURSIVE ProgressLoopUnguarded(_, _, _, _, _)
ProgressLoopUnguarded(log, current_date, end_date, total_activities, total_calories) ==
    IF ~(current_date <= end_date)
    THEN [total_activities |-> total_activities, total_calories |-> total_calories,
          activity_log |-> log]
    ELSE LET read == DefaultGet(log, current_date) IN
         ProgressLoopUnguarded(read, current_date + 1, end_date,
             total_activities + Len(read[current_date]),
             total_calories
                 + SumSeq([k \in 1..Len(read[current_date]) |->
                              read[current_date][k].calories_burned]))

\* the while loop of calculate_progress, from current_date to end_date;
\* activity_log is the user's defaultdict as the loop leaves it
RECURSIVE ProgressLoop(_, _, _, _, _)
ProgressLoop(log, current_date, end_date, total_activities, total_calories) ==
    IF ~(current_date <= end_date)
    THEN [total_activities |-> total_activities, total_calories |-> total_calories,
          activity_log |-> log]
    ELSE IF current_date \in DOMAIN log
         THEN ProgressLoop(log, current_date + 1, end_date,
                  total_activities + Len(log[current_date]),
                  total_calories
                      + SumSeq([k \in 1..Len(log[current_date]) |->
                                   log[current_date][k].calories_burned]))
         ELSE ProgressLoop(log, current_date + 1, end_date,
                           total_activities, total_calories)

\* a daily average over the dates the loop scans, days + 1 of them
AverageOverScanned(total, days) ==
    [num |-> total, den |-> days + 1]

\* total / days if days > 0 else 0, as the exact quotient num / den
Average(total, days) ==
    IF days > 0 THEN [num |-> total, den |-> days] ELSE [num |-> 0, den |-> 1]

\* val is the dictionary calculate_progress returns and users is self.users
\* as the call leaves it; end_date is datetime.now().date()
calculate_progress(us, user_id, days, end_date) ==
    LET start_date == end_date - days
        t == ProgressLoop(us[user_id].activity_log, start_date, end_date, 0, 0)
    IN [val |-> [total_activities |-> t.total_activities,
                 total_calories |-> t.total_calories,
                 avg_daily_activities |-> Average(t.total_activities, days),
                 avg_daily_calories |-> Average(t.total_calories, days)],
        users |-> [us EXCEPT ![user_id].activity_log = t.activity_log]]

(***************************************************************************)
(* Persistence: to_dict, save_data and load_data.                          *)
(***************************************************************************)
\* no users.json, meals.json or workouts.json yet
NoFiles == [exists |-> FALSE]

\* datetime.isoformat()
IsoFormat(timestamp) == [iso |-> timestamp]

\* str(date), and datetime.strptime(date_str, '%Y-%m-%d').date()
DateStr(date) == [ymd |-> date]
StrpDate(date_str) == date_str.ymd

\* Meal.to_dict
Meal_to_dict(meal) ==
    [calories |-> meal.calories, protein |-> meal.protein,
     timestamp |-> IsoFormat(meal.timestamp)]

\* Workout.to_dict: no timestamp among the keys
Workout_to_dict(workout) ==
    [difficulty |-> workout.difficulty, duration |-> workout.duration,
     calories_burn |-> workout.calories_burn]

\* {**activity.__dict__, 'timestamp': convert_datetime(activity.timestamp)}
ActivityDict(activity) ==
    [calories_burned |-> activity.calories_burned,
     timestamp |-> IsoFormat(activity.timestamp)]

\* User.to_dict
User_to_dict(user) ==
    [user_id |-> user.user_id,
     activity_log |->
         [date_str \in {DateStr(date) : date \in DOMAIN user.activity_log} |->
             [k \in DOMAIN user.activity_log[StrpDate(date_str)] |->
                 ActivityDict(user.activity_log[StrpDate(date_str)][k])]],
     recent_activities |->
         [k \in DOMAIN user.recent_activities |-> ActivityDict(user.recent_activities[k])],
     diet_plan |-> [k \in DOMAIN user.diet_plan |-> Meal_to_dict(user.diet_plan[k])],
     workout_plan |->
         [k \in DOMAIN user.workout_plan |-> Workout_to_dict(user.workout_plan[k])]]

\* the three files save_data writes
save_data(us, meals, workouts) ==
    [exists |-> TRUE,
     users |-> [user_id \in DOMAIN us |-> User_to_dict(us[user_id])],
     meals |-> [k \in DOMAIN meals |-> Meal_to_dict(meals[k])],
     workouts |-> [k \in DOMAIN workouts |-> Workout_to_dict(workouts[k])]]

\* Meal(name, calories, protein, carbs, fat) and Meal(**{**meal,
\* 'timestamp': None}): the saved timestamp is not used, the object is
\* stamped datetime.now()
LoadMeal(meal_data, now) ==
    [calories |-> meal_data.calories, protein |-> meal_data.protein, timestamp |-> now]

\* Workout(name, difficulty, duration, calories_burn)
LoadWorkout(workout_data, now) ==
    [difficulty |-> workout_data.difficulty, duration |-> workout_data.duration,
     calories_burn |-> workout_data.calories_burn, timestamp |-> now]

\* Activity(activity_type, duration, calories_burned): a new object, stamped
\* datetime.now()
LoadActivity(activity_data, now, aid) ==
    [aid |-> aid, calories_burned |-> activity_data.calories_burned, timestamp |-> now]

\* the number of Activity objects load_data constructs for a user
LoadedActivities(user_data) ==
    SumSet(DOMAIN user_data.activity_log,
           [date_str \in DOMAIN user_data.activity_log |->
               Len(user_data.activity_log[date_str])])
        + Len(user_data.recent_activities)

\* the User that load_data builds from user_data; the Activity objects it
\* constructs are numbered from aid on, the log's first, then the recent
\* activities', which are objects of their own
LoadUser(user_data, now, aid) ==
    LET log == user_data.activity_log
        before(date_str) ==
            SumSet({e \in DOMAIN log : StrpDate(e) < StrpDate(date_str)},
                   [e \in DOMAIN log |-> Len(log[e])])
        inLog == SumSet(DOMAIN log, [e \in DOMAIN log |-> Len(log[e])])
    IN [user_id |-> user_data.user_id,
        activity_log |->
            [date \in {StrpDate(date_str) : date_str \in DOMAIN log} |->
                [k \in DOMAIN log[DateStr(date)] |->
                    LoadActivity(log[DateStr(date)][k], now,
                                 aid + before(DateStr(date)) + k - 1)]],
        recent_activities |->
            [k \in DOMAIN user_data.recent_activities |->
                LoadActivity(user_data.recent_activities[k], now, aid + inLog + k - 1)],
        diet_plan |->
            [k \in DOMAIN user_data.diet_plan |-> LoadMeal(user_data.diet_plan[k], now)],
        workout_plan |->
            [k \in DOMAIN user_data.workout_plan |->
                LoadWorkout(user_data.workout_plan[k], now)]]

\* load_data into a fresh FitnessSystem at time now: the stores it builds
\* and the number of Activity objects constructed, plus one
load_data(fs, now) ==
    IF ~fs.exists
    THEN [users |-> <<>>, meals_database |-> <<>>, workouts_database |-> <<>>,
          nextAid |-> 1]
    ELSE LET count == [u \in DOMAIN fs.users |-> LoadedActivities(fs.users[u])]
             first(user_id) == 1 + SumSet({u \in DOMAIN fs.users : u < user_id}, count)
         IN [users |-> [user_id \in DOMAIN fs.users |->
                           LoadUser(fs.users[user_id], now, first(user_id))],
             meals_database |-> [k \in DOMAIN fs.meals |-> LoadMeal(fs.meals[k], now)],
             workouts_database |->
                 [k \in DOMAIN fs.workouts |-> LoadWorkout(fs.workouts[k], now)],
             nextAid |-> 1 + SumSet(DOMAIN fs.users, count)]

(***************************************************************************)
(* State machine.                                                          *)
(***************************************************************************)
\* FitnessSystem.__init__ with no saved files: load_data finds nothing
Init ==
    /\ users = <<>>
    /\ meals_database = <<>>
    /\ workouts_database = <<>>
    /\ today = 0
    /\ nextAid = 1
    /\ ret = NoRet
    /\ err = "none"
    /\ logged = {}
    /\ deleted = {}
    /\ files = NoFiles

\* a handler starts when the process runs and its menu is at the prompt,
\* the previous handler's output behind it
Running == err = "none" /\ ret = NoRet

\* a menu loop comes round to its prompt again
Return ==
    /\ err = "none"
    /\ ret # NoRet
    /\ ret' = NoRet
    /\ UNCHANGED <<files, users, meals_database, workouts_database, today, nextAid, err,
                   logged, deleted>>

\* a plausible slip: the new User is stored without the search for the id
AddUserOverwrite(user_id) ==
    /\ Running
    /\ users' = [u \in DOMAIN users \cup {user_id} |->
                     IF u = user_id THEN NewUser(user_id) ELSE users[u]]
    /\ ret' = [op |-> "add_user_input", user_id |-> user_id,
               exists |-> binary_search_user(users, user_id)]
    /\ UNCHANGED <<files, meals_database, workouts_database, today, nextAid, err,
                   logged, deleted>>

\* add_user_input; exists tells which of its two messages it printed
AddUser(user_id) ==
    /\ Running
    /\ users' = IF binary_search_user(users, user_id)
                THEN users
                ELSE [u \in DOMAIN users \cup {user_id} |->
                         IF u = user_id THEN NewUser(user_id) ELSE users[u]]
    /\ ret' = [op |-> "add_user_input", user_id |-> user_id,
               exists |-> binary_search_user(users, user_id)]
    /\ UNCHANGED <<files, meals_database, workouts_database, today, nextAid, err,
                   logged, deleted>>

\* delete_user_input
DeleteUser(user_id) ==
    /\ Running
    /\ users' = IF binary_search_user(users, user_id)
                THEN [u \in DOMAIN users \ {user_id} |-> users[u]]
                ELSE users
    /\ logged' = IF binary_search_user(users, user_id)
                 THEN {a \in logged : a.user_id # user_id}
                 ELSE logged
    /\ ret' = NoRet
    /\ UNCHANGED <<files, meals_database, workouts_database, today, nextAid, err, deleted>>

\* binary_search_user, as the handlers call it
BinarySearchUser(user_id) ==
    /\ Running
    /\ ret' = [op |-> "binary_search_user", user_id |-> user_id,
               val |-> binary_search_user(users, user_id)]
    /\ UNCHANGED <<files, users, meals_database, workouts_database, today, nextAid, err,
                   logged, deleted>>

\* add_meal_input
AddMeal(calories, protein) ==
    /\ Running
    /\ Len(meals_database) < MaxMeals
    /\ meals_database' = Append(meals_database,
                                [calories |-> calories, protein |-> protein,
                                 timestamp |-> today])
    /\ ret' = NoRet
    /\ UNCHANGED <<files, users, workouts_database, today, nextAid, err, logged, deleted>>

\* delete_meal_input; choice is the number entered
DeleteMeal(choice) ==
    /\ Running
    /\ meals_database' = IF /\ meals_database # <<>>
                            /\ choice # 0
                            /\ 1 <= choice /\ choice <= Len(meals_database)
                         THEN RemoveAt(meals_database, choice)
                         ELSE meals_database
    /\ ret' = NoRet
    /\ UNCHANGED <<files, users, workouts_database, today, nextAid, err, logged, deleted>>

\* merge_sort_meals(self.meals_database.copy()), as view_meals calls it
MergeSortMeals ==
    /\ Running
    /\ ret' = [op |-> "merge_sort_meals", arg |-> Refs(meals_database),
               val |-> merge_sort_meals(meals_database, Refs(meals_database))]
    /\ UNCHANGED <<files, users, meals_database, workouts_database, today, nextAid, err,
                   logged, deleted>>

\* greedy_diet_planner(target_calories), as recommend_diet_input calls it
GreedyDietPlanner(target_calories) ==
    /\ Running
    /\ ret' = [op |-> "greedy_diet_planner", target_calories |-> target_calories,
               val |-> greedy_diet_planner(meals_database, target_calories)]
    /\ UNCHANGED <<files, users, meals_database, workouts_database, today, nextAid, err,
                   logged, deleted>>

\* add_workout_input
AddWorkout(difficulty, duration, calories_burn) ==
    /\ Running
    /\ Len(workouts_database) < MaxWorkouts
    /\ workouts_database' = Append(workouts_database,
                                   [difficulty |-> difficulty, duration |-> duration,
                                    calories_burn |-> calories_burn,
                                    timestamp |-> today])
    /\ ret' = NoRet
    /\ UNCHANGED <<files, users, meals_database, today, nextAid, err, logged, deleted>>

\* delete_workout_input; choice is the number entered
DeleteWorkout(choice) ==
    /\ Running
    /\ workouts_database' = IF /\ workouts_database # <<>>
                               /\ choice # 0
                               /\ 1 <= choice /\ choice <= Len(workouts_database)
                            THEN RemoveAt(workouts_database, choice)
                            ELSE workouts_database
    /\ ret' = NoRet
    /\ UNCHANGED <<files, users, meals_database, today, nextAid, err, logged, deleted>>

\* quick_sort_workouts(self.workouts_database.copy()), as view_workouts calls it
QuickSortWorkouts ==
    /\ Running
    /\ ret' = [op |-> "quick_sort_workouts", arg |-> Refs(workouts_database),
               val |-> quick_sort_workouts(workouts_database, Refs(workouts_database))]
    /\ UNCHANGED <<files, users, meals_database, workouts_database, today, nextAid, err,
                   logged, deleted>>

\* dp_workout_scheduler(max_duration, difficulty), as recommend_workout_input
\* calls it
DpWorkoutScheduler(max_duration, difficulty) ==
    /\ Running
    /\ ret' = [op |-> "dp_workout_scheduler", max_duration |-> max_duration,
               difficulty |-> difficulty,
               val |-> dp_workout_scheduler(workouts_database, max_duration, difficulty)]
    /\ UNCHANGED <<files, users, meals_database, workouts_database, today, nextAid, err,
                   logged, deleted>>

\* midnight passes: datetime.now().date() moves on
Tick ==
    /\ Running
    /\ today < MaxDay
    /\ today' = today + 1
    /\ ret' = NoRet
    /\ UNCHANGED <<files, users, meals_database, workouts_database, nextAid, err,
                   logged, deleted>>

\* log_activity_input
LogActivity(user_id, calories) ==
    /\ Running
    /\ IF binary_search_user(users, user_id)
       THEN LET activity == [aid |-> nextAid, calories_burned |-> calories,
                             timestamp |-> today] IN
            /\ users' = [users EXCEPT
                   ![user_id].activity_log = LogAppend(@, today, activity),
                   ![user_id].recent_activities = DequeAppend(@, activity)]
            /\ nextAid' = nextAid + 1
            /\ logged' = logged \cup {[user_id |-> user_id, aid |-> nextAid,
                                       date |-> today, calories_burned |-> calories]}
       ELSE UNCHANGED <<users, nextAid, logged>>
    /\ ret' = NoRet
    /\ UNCHANGED <<files, meals_database, workouts_database, today, err, deleted>>

\* delete_activity_input; choice is the number entered, and ret records a
\* number within the listing.  list.pop with an index past the end raises
\* IndexError, which the handler does not catch.
DeleteActivity(user_id, choice) ==
    /\ Running
    /\ UNCHANGED <<files, meals_database, workouts_database, today, nextAid, logged>>
    /\ IF ~binary_search_user(users, user_id)
       THEN /\ ret' = NoRet
            /\ UNCHANGED <<users, err, deleted>>
       ELSE LET user == users[user_id]
                listing == activities_list(user.activity_log)
            IN IF user.activity_log = <<>> \/ choice = 0
                  \/ ~(1 <= choice /\ choice <= Len(listing))
               THEN /\ ret' = NoRet
                    /\ UNCHANGED <<users, err, deleted>>
               ELSE LET date == listing[choice].date IN
                    /\ ret' = [op |-> "delete_activity_input", user_id |-> user_id,
                               choice |-> choice]
                    /\ IF choice - 1 >= Len(user.activity_log[date])
                       THEN /\ err' = "IndexError"
                            /\ UNCHANGED <<users, deleted>>
                       ELSE LET popped == RemoveAt(user.activity_log[date], choice)
                            IN /\ users' = [users EXCEPT ![user_id].activity_log =
                                      IF popped = <<>>
                                      THEN [d \in DOMAIN @ \ {date} |-> @[d]]
                                      ELSE [@ EXCEPT ![date] = popped]]
                               /\ deleted' = deleted \cup {listing[choice].activity.aid}
                               /\ err' = err

\* progress_menu: calculate_progress(user_id, days) for a user that exists
CalculateProgress(user_id, days) ==
    /\ Running
    /\ IF binary_search_user(users, user_id)
       THEN LET p == calculate_progress(users, user_id, days, today) IN
            /\ ret' = [op |-> "calculate_progress", user_id |-> user_id, days |-> days,
                       total_activities |-> p.val.total_activities,
                       total_calories |-> p.val.total_calories,
                       avg_daily_activities |-> p.val.avg_daily_activities,
                       avg_daily_calories |-> p.val.avg_daily_calories]
            /\ users' = p.users
       ELSE /\ ret' = NoRet
            /\ users' = users
    /\ UNCHANGED <<files, meals_database, workouts_database, today, nextAid, err,
                   logged, deleted>>

\* recommend_diet_input; save is the answer 'y' to the question whether to
\* save the plan.  The plan keeps the recommended Meal objects.
RecommendDiet(user_id, target_calories, save) ==
    /\ Running
    /\ IF binary_search_user(users, user_id)
       THEN LET recommended_meals == greedy_diet_planner(meals_database, target_calories)
            IN IF recommended_meals # <<>> /\ save
               THEN users' = [users EXCEPT ![user_id].diet_plan =
                                  [k \in DOMAIN recommended_meals |->
                                      meals_database[recommended_meals[k]]]]
               ELSE users' = users
       ELSE users' = users
    /\ ret' = NoRet
    /\ UNCHANGED <<files, meals_database, workouts_database, today, nextAid, err,
                   logged, deleted>>

\* recommend_workout_input
RecommendWorkout(user_id, max_duration, difficulty, save) ==
    /\ Running
    /\ IF binary_search_user(users, user_id)
       THEN LET recommended_workouts ==
                    dp_workout_scheduler(workouts_database, max_duration, difficulty)
            IN IF recommended_workouts # <<>> /\ save
               THEN users' = [users EXCEPT ![user_id].workout_plan =
                                  [k \in DOMAIN recommended_workouts |->
                                      workouts_database[recommended_workouts[k]]]]
               ELSE users' = users
       ELSE users' = users
    /\ ret' = NoRet
    /\ UNCHANGED <<files, meals_database, workouts_database, today, nextAid, err,
                   logged, deleted>>

\* delete_saved_plan_input(plan_type)
DeleteSavedPlan(user_id, plan_type) ==
    /\ Running
    /\ IF binary_search_user(users, user_id)
       THEN users' = [users EXCEPT
                ![user_id].diet_plan = IF plan_type = "diet" THEN <<>> ELSE @,
                ![user_id].workout_plan = IF plan_type = "workout" THEN <<>> ELSE @]
       ELSE users' = users
    /\ ret' = NoRet
    /\ UNCHANGED <<files, meals_database, workouts_database, today, nextAid, err,
                   logged, deleted>>

\* main menu choice 7: save_data, and the process ends
SaveAndExit ==
    /\ Running
    /\ files' = save_data(users, meals_database, workouts_database)
    /\ err' = "exit"
    /\ UNCHANGED <<users, meals_database, workouts_database, today, nextAid, ret,
                   logged, deleted>>

\* the program is started again: FitnessSystem.__init__ empties the stores
\* and load_data fills them from the files
Restart ==
    /\ err # "none"
    /\ LET loaded == load_data(files, today) IN
       /\ users' = loaded.users
       /\ meals_database' = loaded.meals_database
       /\ workouts_database' = loaded.workouts_database
       /\ nextAid' = loaded.nextAid
       /\ logged' = UNION {UNION {{[user_id |-> u, aid |-> loaded.users[u].activity_log[d][k].aid,
                                     date |-> d,
                                     calories_burned |->
                                         loaded.users[u].activity_log[d][k].calories_burned] :
                                       k \in DOMAIN loaded.users[u].activity_log[d]} :
                                  d \in DOMAIN loaded.users[u].activity_log} :
                           u \in DOMAIN loaded.users}
    /\ deleted' = {}
    /\ ret' = NoRet
    /\ err' = "none"
    /\ UNCHANGED <<today, files>>

(***************************************************************************)
(* Input domains and the specifications of the single stores.              *)
(***************************************************************************)
\* meal calories and target_calories in one unit, chosen so that the 10%
\* allowance of a target is a whole number of units; protein in grams
Calories == {0, 4, 7, 11}
Proteins == {0, 1, 2}
Targets == {0, 10, 20}
\* workout minutes, and calories burnt by a workout or an activity
Durations == {0, 1, 2}
Burns == {0, 1, 2}
ActUserIds == 1..MaxActUsers

NextDirectory ==
    \/ \E u \in UserIds : AddUser(u)
    \/ \E u \in TargetIds : DeleteUser(u)
    \/ \E u \in TargetIds : BinarySearchUser(u)
    \/ Return

SpecDirectory == Init /\ [][NextDirectory]_vars

NextMeals ==
    \/ \E c \in Calories, p \in Proteins : AddMeal(c, p)
    \/ \E k \in 0..(MaxMeals + 1) : DeleteMeal(k)
    \/ MergeSortMeals
    \/ \E t \in Targets : GreedyDietPlanner(t)
    \/ Return

SpecMeals == Init /\ [][NextMeals]_vars

NextWorkouts ==
    \/ \E d \in Difficulties, m \in Durations, b \in Burns : AddWorkout(d, m, b)
    \/ \E k \in 0..(MaxWorkouts + 1) : DeleteWorkout(k)
    \/ QuickSortWorkouts
    \/ \E w \in 0..MaxBudget, d \in Difficulties : DpWorkoutScheduler(w, d)
    \/ Return

SpecWorkouts == Init /\ [][NextWorkouts]_vars

NextActivity ==
    \/ \E u \in ActUserIds : AddUser(u)
    \/ \E u \in ActUserIds : DeleteUser(u)
    \/ nextAid <= MaxActivities /\ \E u \in ActUserIds, c \in Burns : LogActivity(u, c)
    \/ \E u \in ActUserIds, k \in 0..(MaxActivities + 1) : DeleteActivity(u, k)
    \/ Tick
    \/ \E u \in ActUserIds, n \in 0..(MaxDay + 1) : CalculateProgress(u, n)
    \/ Return

SpecActivity == Init /\ [][NextActivity]_vars

(***************************************************************************)
(* The whole system within one day and one run of the program: every      *)
(* store and every handler, on small inputs.                               *)
(***************************************************************************)
MaxObjects == 3

SysUserIds == {1, 2}
\* ids looked up: the two users', one below and one above
SysTargetIds == {0, 1, 2, 3}
\* days asked of the progress report
SysDays == {0, 1}
\* <<calories, protein>> of the meals entered
SysMeals == {<<4, 1>>, <<11, 0>>}
SysTargets == {0, 3, 10}
\* <<difficulty, duration, calories_burn>> of the workouts entered
SysWorkouts == {<<"easy", 0, 2>>, <<"hard", 1, 1>>}
SysBudgets == {0, 2}
SysBurns == {1}
PlanTypes == {"diet", "workout"}

\* users, meals and workouts held, and activities logged so far
Objects ==
    Cardinality(DOMAIN users) + Len(meals_database) + Len(workouts_database)
        + (nextAid - 1)

NextSystem ==
    \/ Objects < MaxObjects /\ \E u \in SysUserIds : AddUser(u)
    \/ \E u \in SysUserIds : DeleteUser(u)
    \/ \E u \in SysTargetIds : BinarySearchUser(u)
    \/ Objects < MaxObjects /\ \E m \in SysMeals : AddMeal(m[1], m[2])
    \/ \E k \in 1..MaxObjects : DeleteMeal(k)
    \/ MergeSortMeals
    \/ \E t \in SysTargets : GreedyDietPlanner(t)
    \/ \E u \in SysUserIds, t \in SysTargets, save \in BOOLEAN : RecommendDiet(u, t, save)
    \/ Objects < MaxObjects /\ \E w \in SysWorkouts : AddWorkout(w[1], w[2], w[3])
    \/ \E k \in 1..MaxObjects : DeleteWorkout(k)
    \/ QuickSortWorkouts
    \/ \E w \in SysBudgets, d \in Difficulties : DpWorkoutScheduler(w, d)
    \/ \E u \in SysUserIds, w \in SysBudgets, d \in Difficulties, save \in BOOLEAN :
           RecommendWorkout(u, w, d, save)
    \/ \E u \in SysUserIds, t \in PlanTypes : DeleteSavedPlan(u, t)
    \/ Objects < MaxObjects /\ \E u \in SysUserIds, c \in SysBurns : LogActivity(u, c)
    \/ \E u \in SysUserIds, k \in 1..MaxObjects : DeleteActivity(u, k)
    \/ \E u \in SysUserIds, n \in SysDays : CalculateProgress(u, n)
    \/ Return

SpecSystem == Init /\ [][NextSystem]_vars

(***************************************************************************)
(* Persistence: one user, one kind of meal, workout and activity, added,   *)
(* recommended and saved over several days and several runs of the         *)
(* program.                                                                *)
(***************************************************************************)
NextPersistence ==
    \/ Objects < MaxObjects /\ \E u \in ActUserIds : AddUser(u)
    \/ Objects < MaxObjects /\ AddMeal(4, 1)
    \/ DeleteMeal(1)
    \/ \E u \in ActUserIds : RecommendDiet(u, 10, TRUE)
    \/ Objects < MaxObjects /\ AddWorkout("easy", 1, 1)
    \/ \E u \in ActUserIds : RecommendWorkout(u, 2, "easy", TRUE)
    \/ Objects < MaxObjects /\ \E u \in ActUserIds : LogActivity(u, 1)
    \/ Tick
    \/ SaveAndExit
    \/ Restart
    \/ Return

SpecPersistence == Init /\ [][NextPersistence]_vars

(***************************************************************************)
(* One user's log: enough activities logged to fill recent_activities and  *)
(* more, and progress reports over it.                                     *)
(***************************************************************************)
MaxLogged == 11

NextRecent ==
    \/ AddUser(1)
    \/ nextAid <= MaxLogged /\ LogActivity(1, 1)
    \/ Tick
    \/ \E n \in 0..(MaxDay + 1) : CalculateProgress(1, n)
    \/ Return

SpecRecent == Init /\ [][NextRecent]_vars

(***************************************************************************)
(* Properties.                                                             *)
(***************************************************************************)
\* the number of positions of s that hold x
Count(s, x) == Cardinality({k \in DOMAIN s : s[k] = x})

\* s and t hold the same objects with the same multiplicities
SameObjects(s, t) ==
    /\ Len(s) = Len(t)
    /\ \A x \in Range(s) \cup Range(t) : Count(s, x) = Count(t, x)

\* the position of the first occurrence of x in s
PositionIn(s, x) == CHOOSE k \in DOMAIN s : s[k] = x /\ \A m \in 1..(k - 1) : s[m] # x

\* C3: binary_search_user(target) returns True if and only if target is one
\* of the ids in users, whatever the set of ids (empty and singleton too).
C3_SearchIffMember ==
    ret.op = "binary_search_user" =>
        (ret.val <=> ret.user_id \in DOMAIN users)

\* C3 witness: a search among at least three users found the largest id,
\* which the halving scan reaches last.
C3_Witness ==
    /\ ret.op = "binary_search_user"
    /\ Cardinality(DOMAIN users) >= 3
    /\ ret.val
    /\ \A u \in DOMAIN users : u <= ret.user_id

\* C6: merge_sort_meals returns a permutation of its input (same meal
\* objects, same multiplicities, same length) with calories non-decreasing
\* from each element to the next.
C6_MergeSortPermutationAscending ==
    ret.op = "merge_sort_meals" =>
        /\ SameObjects(ret.val, ret.arg)
        /\ \A k \in 1..(Len(ret.val) - 1) :
               meals_database[ret.val[k]].calories
                   <= meals_database[ret.val[k + 1]].calories

\* C6 witness: a list of three meals that was not in order came back
\* reordered.
C6_Witness ==
    /\ ret.op = "merge_sort_meals"
    /\ Len(ret.arg) >= 3
    /\ ret.val # ret.arg
    /\ \E k \in 1..(Len(ret.arg) - 1) :
           meals_database[ret.arg[k]].calories
               > meals_database[ret.arg[k + 1]].calories

\* the meals of s are in non-decreasing calories order
CaloriesAscending(s) ==
    \A k \in 1..(Len(s) - 1) :
        meals_database[s[k]].calories <= meals_database[s[k + 1]].calories

\* C7: merge_sort_meals is stable (of two meals with equal calories the one
\* first in the input is first in the output), and sorting an already
\* calorie-ascending list returns the same sequence.
C7_MergeSortStableIdempotent ==
    ret.op = "merge_sort_meals" =>
        /\ \A a, b \in DOMAIN ret.arg :
               (/\ a < b
                /\ meals_database[ret.arg[a]].calories
                       = meals_database[ret.arg[b]].calories)
               => PositionIn(ret.val, ret.arg[a]) < PositionIn(ret.val, ret.arg[b])
        /\ CaloriesAscending(ret.arg) => ret.val = ret.arg
        /\ merge_sort_meals(meals_database, ret.val) = ret.val

\* C7 witness: the sort moved meals while two meals of equal calories, not
\* adjacent in the input, kept their order.
C7_Witness ==
    /\ ret.op = "merge_sort_meals"
    /\ ret.val # ret.arg
    /\ \E a, b \in DOMAIN ret.arg :
           /\ a + 1 < b
           /\ meals_database[ret.arg[a]].calories
                  = meals_database[ret.arg[b]].calories
           /\ PositionIn(ret.val, ret.arg[a]) < PositionIn(ret.val, ret.arg[b])

\* C8: quick_sort_workouts returns a permutation of its input with
\* calories_burn non-increasing from each element to the next; an empty or
\* singleton input is returned unchanged.
C8_QuickSortPermutationDescending ==
    ret.op = "quick_sort_workouts" =>
        /\ SameObjects(ret.val, ret.arg)
        /\ \A k \in 1..(Len(ret.val) - 1) :
               workouts_database[ret.val[k]].calories_burn
                   >= workouts_database[ret.val[k + 1]].calories_burn
        /\ Len(ret.arg) <= 1 => ret.val = ret.arg

\* C8 witness: three workouts, two of them tied, came back reordered.
C8_Witness ==
    /\ ret.op = "quick_sort_workouts"
    /\ Len(ret.arg) >= 3
    /\ ret.val # ret.arg
    /\ \E a, b \in DOMAIN ret.arg :
           /\ a # b
           /\ workouts_database[ret.arg[a]].calories_burn
                  = workouts_database[ret.arg[b]].calories_burn

\* C9: quick_sort_workouts is stable on ties: of two workouts with equal
\* calories_burn the one first in the input is first in the output.
C9_QuickSortStable ==
    ret.op = "quick_sort_workouts" =>
        \A a, b \in DOMAIN ret.arg :
            (/\ a < b
             /\ workouts_database[ret.arg[a]].calories_burn
                    = workouts_database[ret.arg[b]].calories_burn)
            => PositionIn(ret.val, ret.arg[a]) < PositionIn(ret.val, ret.arg[b])

\* C9 witness: the tie is sorted one level down: two workouts tied above the
\* pivot's calories_burn go to the "greater" bucket, which is sorted by the
\* recursive call.
C9_Witness ==
    /\ ret.op = "quick_sort_workouts"
    /\ Len(ret.arg) = 3
    /\ workouts_database[ret.arg[1]].calories_burn
           = workouts_database[ret.arg[3]].calories_burn
    /\ workouts_database[ret.arg[1]].calories_burn
           > workouts_database[ret.arg[2]].calories_burn
    /\ ret.val = <<ret.arg[1], ret.arg[3], ret.arg[2]>>

\* the calories of the first k meals of a plan
PlanCalories(plan, k) ==
    SumSeq([m \in 1..k |-> meals_database[plan[m]].calories])

\* C4: the calories of the meals returned by greedy_diet_planner never
\* exceed target_calories * 1.1, neither at the end nor after any meal was
\* added (every prefix of the returned list).
C4_DietWithinAllowance ==
    ret.op = "greedy_diet_planner" =>
        \A k \in 0..Len(ret.val) :
            10 * PlanCalories(ret.val, k) <= 11 * ret.target_calories

\* C4 witness: phase 2 used the allowance: a plan of at least two meals ends
\* above target_calories.
C4_Witness ==
    /\ ret.op = "greedy_diet_planner"
    /\ Len(ret.val) >= 2
    /\ PlanCalories(ret.val, Len(ret.val)) > ret.target_calories

\* what phase 1 of the last greedy_diet_planner call selected
Phase1Plan ==
    Phase1(meals_database, StableSort(Refs(meals_database), RatioBefore(meals_database)),
           ret.target_calories, 0, <<>>, 0, 0).recommended_meals

\* C5: every meal returned by greedy_diet_planner is an entry of
\* meals_database, no entry (by identity) is returned twice across the two
\* phases, and the result is empty when meals_database is empty.
C5_DietFromDatabaseOnce ==
    ret.op = "greedy_diet_planner" =>
        /\ \A k \in DOMAIN ret.val : ret.val[k] \in DOMAIN meals_database
        /\ \A k, m \in DOMAIN ret.val : ret.val[k] = ret.val[m] => k = m
        /\ meals_database = <<>> => ret.val = <<>>

\* C5 witness: both phases selected meals, and the database holds two meals
\* with equal fields of which only one is in the plan.
C5_Witness ==
    /\ ret.op = "greedy_diet_planner"
    /\ Len(Phase1Plan) >= 1
    /\ Len(ret.val) > Len(Phase1Plan)
    /\ \E a \in Range(ret.val), b \in DOMAIN meals_database \ Range(ret.val) :
           meals_database[a] = meals_database[b]

\* the durations and the calories_burn of the workouts, by reference
DurationOf == [w \in DOMAIN workouts_database |-> workouts_database[w].duration]
BurnOf == [w \in DOMAIN workouts_database |-> workouts_database[w].calories_burn]

\* the workouts of the database with the difficulty of the last scheduler call
Matching ==
    {w \in DOMAIN workouts_database :
        workouts_database[w].difficulty = ret.difficulty}

\* the exhaustive-search 0/1-knapsack optimum of the last scheduler call
BruteForceOptimum ==
    LET feasible == {S \in SUBSET Matching : SumSet(S, DurationOf) <= ret.max_duration}
    IN CHOOSE v \in {SumSet(S, BurnOf) : S \in feasible} :
           \A S \in feasible : SumSet(S, BurnOf) <= v

\* C1: the calories_burn of the list returned by dp_workout_scheduler sum to
\* the maximum over all subsets of the difficulty-matching workouts whose
\* total duration is <= max_duration (durations >= 0, duration 0 allowed).
C1_SchedulerOptimal ==
    ret.op = "dp_workout_scheduler" =>
        SumSet(Range(ret.val), BurnOf) = BruteForceOptimum

\* Where every matching workout lasts at least a minute the returned list
\* does reach the optimum: C1 fails on workouts of duration 0 only.
SchedulerOptimalPositiveDurations ==
    (/\ ret.op = "dp_workout_scheduler"
     /\ \A w \in Matching : workouts_database[w].duration > 0)
    => SumSet(Range(ret.val), BurnOf) = BruteForceOptimum

\* C2: the list returned by dp_workout_scheduler is a feasible selection:
\* entries of workouts_database of exactly the difficulty asked for, none
\* twice, with durations summing to at most max_duration.
C2_SchedulerFeasible ==
    ret.op = "dp_workout_scheduler" =>
        /\ \A k \in DOMAIN ret.val : ret.val[k] \in Matching
        /\ \A k, m \in DOMAIN ret.val : ret.val[k] = ret.val[m] => k = m
        /\ SumSeq([k \in DOMAIN ret.val |-> DurationOf[ret.val[k]]]) <= ret.max_duration

\* C2 witness: two workouts that fill the budget exactly were selected and
\* a workout of the other difficulty, which would have fitted, was left out.
C2_Witness ==
    /\ ret.op = "dp_workout_scheduler"
    /\ Len(ret.val) = 2
    /\ SumSeq([k \in DOMAIN ret.val |-> DurationOf[ret.val[k]]]) = ret.max_duration
    /\ \E w \in DOMAIN workouts_database \ Matching :
           /\ DurationOf[w] <= ret.max_duration
           /\ BurnOf[w] > 0

\* the activities the user of the last progress report logged and did not
\* delete, dated within [today - days, today]
LoggedInWindow ==
    {a \in logged :
        /\ a.user_id = ret.user_id
        /\ a.aid \notin deleted
        /\ today - ret.days <= a.date
        /\ a.date <= today}

\* C10: calculate_progress returns total_activities equal to the number of
\* logged activities dated within [today - days, today] and total_calories
\* equal to the sum of their calories_burned; an activity that was logged and
\* later deleted contributes nothing.
C10_ProgressOverLoggedNotDeleted ==
    ret.op = "calculate_progress" =>
        /\ ret.total_activities = Cardinality(LoggedInWindow)
        /\ ret.total_calories
               = SumSet({a.aid : a \in LoggedInWindow},
                        [i \in 1..MaxActivities |->
                            LET a == CHOOSE x \in logged : x.aid = i
                            IN a.calories_burned])

\* the activities in the log of the user of the last progress report, as
\* (date, activity) pairs
InLog == Range(activities_list(users[ret.user_id].activity_log))

\* Over what the activity log holds, the totals are the naive sum over the
\* inclusive range: C10 fails through delete_activity_input only.
ProgressMatchesLog ==
    ret.op = "calculate_progress" =>
        LET window == {e \in InLog : today - ret.days <= e.date /\ e.date <= today}
        IN /\ ret.total_activities = Cardinality(window)
           /\ ret.total_calories
                  = SumSet({e.activity.aid : e \in window},
                           [i \in 1..MaxActivities |->
                               LET e == CHOOSE x \in InLog : x.activity.aid = i
                               IN e.activity.calories_burned])

\* C11: the averages calculate_progress returns are the totals divided by
\* days, not by the days + 1 dates it scans: for days > 0 each average times
\* days is its total, and for days = 0 both averages are 0 whatever the
\* totals are, with no error.
C11_AveragesOverDays ==
    ret.op = "calculate_progress" =>
        /\ err = "none"
        /\ ret.avg_daily_activities.den > 0
        /\ ret.avg_daily_calories.den > 0
        /\ IF ret.days > 0
           THEN /\ ret.avg_daily_activities.num * ret.days
                       = ret.total_activities * ret.avg_daily_activities.den
                /\ ret.avg_daily_calories.num * ret.days
                       = ret.total_calories * ret.avg_daily_calories.den
           ELSE /\ ret.avg_daily_activities.num = 0
                /\ ret.avg_daily_calories.num = 0

\* three activities over a two-day window, an average that is not a whole
\* number
C11_Witness ==
    /\ ret.op = "calculate_progress"
    /\ ret.days = 2
    /\ ret.total_activities = 3
    /\ ret.total_calories > 0

\* a zero-day window over a day that has activities: totals are not zero,
\* the averages are
C11_ZeroDaysReached ==
    /\ ret.op = "calculate_progress"
    /\ ret.days = 0
    /\ ret.total_activities > 0
    /\ ret.total_calories > 0

\* the example of the scheduler's result ordering: W1 (30 min, 50 kcal),
\* W2 (20 min, 40 kcal), W3 (10 min, 20 kcal), all of one difficulty
ExampleWorkouts ==
    <<[difficulty |-> "easy", duration |-> 30, calories_burn |-> 50],
      [difficulty |-> "easy", duration |-> 20, calories_burn |-> 40],
      [difficulty |-> "easy", duration |-> 10, calories_burn |-> 20]>>

ExampleSchedule == dp_workout_scheduler(ExampleWorkouts, 30, "easy")

\* C12: the list returned by dp_workout_scheduler is in reverse order of the
\* workouts' positions in the difficulty-filtered, database-order list: of
\* two returned workouts the one later in the database comes first.  With
\* W1 (30, 50), W2 (20, 40), W3 (10, 20) and max_duration 30 it is [W3, W2].
C12_SchedulerReverseOrder ==
    /\ ExampleSchedule = <<3, 2>>
    /\ ret.op = "dp_workout_scheduler" =>
           \A k, m \in DOMAIN ret.val :
               PositionIn(SuitableWorkouts(workouts_database, ret.difficulty), ret.val[k])
                   < PositionIn(SuitableWorkouts(workouts_database, ret.difficulty), ret.val[m])
               => m < k

\* C12 witness: two workouts were returned, and a workout of the other
\* difficulty stands between them in the database
C12_Witness ==
    /\ ret.op = "dp_workout_scheduler"
    /\ Len(ret.val) = 2
    /\ \E w \in DOMAIN workouts_database \ Matching :
           ret.val[2] < w /\ w < ret.val[1]

\* the engine operations
EngineOps ==
    {"binary_search_user", "merge_sort_meals", "quick_sort_workouts",
     "greedy_diet_planner", "dp_workout_scheduler", "calculate_progress"}

C14_NoMealFitsReached ==
    /\ ret.op = "greedy_diet_planner"
    /\ ret.target_calories > 0
    /\ meals_database # <<>>
    /\ \A m \in DOMAIN meals_database :
           10 * meals_database[m].calories > 11 * ret.target_calories

\* a difficulty that none of the workouts of the database has
C14_NoWorkoutMatchesReached ==
    /\ ret.op = "dp_workout_scheduler"
    /\ ret.max_duration > 0
    /\ workouts_database # <<>>
    /\ Matching = {}

\* the fields of an activity, its identity left out
ActivityFields(activity) ==
    [calories_burned |-> activity.calories_burned, timestamp |-> activity.timestamp]

\* the users mapping as data: every field of every user, activity and plan
\* entry
UsersFields(us) ==
    [u \in DOMAIN us |->
        [user_id |-> us[u].user_id,
         activity_log |->
             [d \in DOMAIN us[u].activity_log |->
                 [k \in DOMAIN us[u].activity_log[d] |->
                     ActivityFields(us[u].activity_log[d][k])]],
         recent_activities |->
             [k \in DOMAIN us[u].recent_activities |->
                 ActivityFields(us[u].recent_activities[k])],
         diet_plan |-> us[u].diet_plan,
         workout_plan |-> us[u].workout_plan]]

\* C15: persistence round-trips without loss: what a fresh system loads
\* after save_data is the same users, meals_database and workouts_database,
\* every field kept (timestamps of meals, workouts and activities too),
\* each activity log with the same dates and the same ordered activities.
C15_PersistenceRoundTrip ==
    [][(err = "exit" /\ err' = "none") =>
          /\ UsersFields(users') = UsersFields(users)
          /\ meals_database' = meals_database
          /\ workouts_database' = workouts_database]_vars

\* a record with its timestamp set to 0
Unstamped(r) == [r EXCEPT !.timestamp = 0]

\* the users mapping as data, timestamps left out
UsersFieldsUnstamped(us) ==
    [u \in DOMAIN us |->
        [user_id |-> us[u].user_id,
         activity_log |->
             [d \in DOMAIN us[u].activity_log |->
                 [k \in DOMAIN us[u].activity_log[d] |->
                     Unstamped(ActivityFields(us[u].activity_log[d][k]))]],
         recent_activities |->
             [k \in DOMAIN us[u].recent_activities |->
                 Unstamped(ActivityFields(us[u].recent_activities[k]))],
         diet_plan |-> [k \in DOMAIN us[u].diet_plan |-> Unstamped(us[u].diet_plan[k])],
         workout_plan |->
             [k \in DOMAIN us[u].workout_plan |-> Unstamped(us[u].workout_plan[k])]]]

\* What the round trip does keep: every field but the timestamps, which
\* load_data replaces with the time of loading.
PersistenceKeepsAllButTimestamps ==
    [][(err = "exit" /\ err' = "none") =>
          /\ UsersFieldsUnstamped(users') = UsersFieldsUnstamped(users)
          /\ [k \in DOMAIN meals_database' |-> Unstamped(meals_database'[k])]
                 = [k \in DOMAIN meals_database |-> Unstamped(meals_database[k])]
          /\ [k \in DOMAIN workouts_database' |-> Unstamped(workouts_database'[k])]
                 = [k \in DOMAIN workouts_database |-> Unstamped(workouts_database[k])]]_vars

\* C16: add_user_input keeps user ids unique.  An id that exists leaves the
\* users mapping completely unchanged (the user's log, recent activities
\* and saved plans are not overwritten); an id that does not exist adds
\* exactly one entry under that id, with an empty log and empty plans, and
\* leaves every other entry unchanged.  After any sequence of additions and
\* deletions every key k of users maps to a user whose user_id is k.
C16_AddUserKeepsIdsUnique ==
    [][/\ ret'.op = "add_user_input" =>
             IF ret'.user_id \in DOMAIN users
             THEN users' = users
             ELSE /\ DOMAIN users' = DOMAIN users \cup {ret'.user_id}
                  /\ users'[ret'.user_id].activity_log = <<>>
                  /\ users'[ret'.user_id].recent_activities = <<>>
                  /\ users'[ret'.user_id].diet_plan = <<>>
                  /\ users'[ret'.user_id].workout_plan = <<>>
                  /\ \A u \in DOMAIN users : users'[u] = users[u]
       /\ \A k \in DOMAIN users' : users'[k].user_id = k]_vars

\* C16 witness: the id entered belongs to a user with a logged activity and
\* a saved diet plan
C16_Witness ==
    /\ ret.op = "add_user_input"
    /\ ret.exists
    /\ users[ret.user_id].activity_log # <<>>
    /\ users[ret.user_id].recent_activities # <<>>
    /\ users[ret.user_id].diet_plan # <<>>

\* a new id was added next to a user who has a logged activity
C16_NewIdReached ==
    /\ ret.op = "add_user_input"
    /\ ~ret.exists
    /\ \E u \in DOMAIN users \ {ret.user_id} : users[u].activity_log # <<>>

\* the order in which the last greedy_diet_planner call scanned the meals
ScanOrder == StableSort(Refs(meals_database), RatioBefore(meals_database))

\* the calories and the protein of the meals, by reference
CaloriesOf == [m \in DOMAIN meals_database |-> meals_database[m].calories]
ProteinOf == [m \in DOMAIN meals_database |-> meals_database[m].protein]

\* the meals phase 1 had added when it came to position i of the scan
AddedBefore(i) == {ScanOrder[k] : k \in {k \in 1..(i - 1) : ScanOrder[k] \in Range(Phase1Plan)}}

\* C17: phase 1 of greedy_diet_planner scans the meals in ascending
\* calories/protein ratio, meals without protein last, ties in database
\* order.  It adds a meal only if, when the meal is scanned, the calories
\* added so far plus the meal's are <= target_calories and the protein added
\* so far is strictly below target_calories * 0.3 / 4.  So no meal is added
\* after the protein target is reached, and the calories of phase 1 never
\* exceed target_calories.
C17_Phase1ScanAndGuard ==
    ret.op = "greedy_diet_planner" =>
        /\ Len(ScanOrder) = Len(meals_database)
        /\ Range(ScanOrder) = DOMAIN meals_database
        /\ \A i, j \in DOMAIN ScanOrder :
               i < j =>
                   LET a == meals_database[ScanOrder[i]]
                       b == meals_database[ScanOrder[j]]
                   IN /\ a.protein = 0 => b.protein = 0
                      /\ (a.protein > 0 /\ b.protein > 0)
                             => a.calories * b.protein <= b.calories * a.protein
                      /\ (\/ a.protein = 0 /\ b.protein = 0
                          \/ /\ a.protein > 0 /\ b.protein > 0
                             /\ a.calories * b.protein = b.calories * a.protein)
                             => ScanOrder[i] < ScanOrder[j]
        /\ Phase1Plan = SelectSeq(ScanOrder, LAMBDA m : m \in Range(Phase1Plan))
        /\ Phase1Plan = SubSeq(ret.val, 1, Len(Phase1Plan))
        /\ \A i \in DOMAIN ScanOrder :
               ScanOrder[i] \in Range(Phase1Plan) =>
                   /\ SumSet(AddedBefore(i), CaloriesOf) + CaloriesOf[ScanOrder[i]]
                          <= ret.target_calories
                   /\ 40 * SumSet(AddedBefore(i), ProteinOf) < 3 * ret.target_calories
        /\ \A i, j \in DOMAIN ScanOrder :
               (i < j /\ 40 * SumSet(AddedBefore(i), ProteinOf) >= 3 * ret.target_calories)
                   => ScanOrder[j] \notin Range(Phase1Plan)
        /\ SumSet(Range(Phase1Plan), CaloriesOf) <= ret.target_calories

\* C17 witness: phase 1 added a meal and reached the protein target, and
\* passed over a later meal with protein whose calories would still have
\* fitted; the database holds a meal without protein too
C17_Witness ==
    /\ ret.op = "greedy_diet_planner"
    /\ Phase1Plan # <<>>
    /\ \E i \in DOMAIN ScanOrder :
           /\ ScanOrder[i] \notin Range(Phase1Plan)
           /\ 40 * SumSet(AddedBefore(i), ProteinOf) >= 3 * ret.target_calories
           /\ SumSet(AddedBefore(i), CaloriesOf) + CaloriesOf[ScanOrder[i]]
                  <= ret.target_calories
           /\ ProteinOf[ScanOrder[i]] > 0
    /\ \E m \in DOMAIN meals_database : ProteinOf[m] = 0

\* dp[n][max_duration] of the last dp_workout_scheduler call
DpFinal ==
    LET suitable_workouts == SuitableWorkouts(workouts_database, ret.difficulty)
    IN DpTable(workouts_database, suitable_workouts, ret.max_duration)
           [Len(suitable_workouts), ret.max_duration]

\* the budget j left after the first k workouts of the result were taken
BudgetLeft(k) ==
    ret.max_duration - SumSeq([m \in 1..k |-> DurationOf[ret.val[m]]])

\* C18: the backward reconstruction of dp_workout_scheduler agrees with the
\* dp table: the calories_burn of the returned workouts sum to
\* dp[n][max_duration], and the remaining budget j is >= 0 at every cell
\* the reconstruction visits.
C18_BacktrackMatchesTable ==
    ret.op = "dp_workout_scheduler" =>
        /\ SumSeq([k \in DOMAIN ret.val |-> BurnOf[ret.val[k]]]) = DpFinal
        /\ \A k \in 0..Len(ret.val) : BudgetLeft(k) >= 0

\* C18 witness: two workouts were taken, budget is left over, and a matching
\* workout that burns calories was left out
C18_Witness ==
    /\ ret.op = "dp_workout_scheduler"
    /\ Len(ret.val) = 2
    /\ BudgetLeft(2) > 0
    /\ \E w \in Matching \ Range(ret.val) : BurnOf[w] > 0

\* C19: for a valid choice k (1 <= k <= N, the N activities listed by
\* ascending date and, within a date, in insertion order)
\* delete_activity_input removes exactly the k-th listed activity: the log
\* afterwards lists the other N - 1 activities with their dates and in the
\* same order, no error occurs, and no date is left with an empty list.
C19_DeleteRemovesChosen ==
    [][ret'.op = "delete_activity_input" =>
          /\ err' = "none"
          /\ activities_list(users'[ret'.user_id].activity_log)
                 = RemoveAt(activities_list(users[ret'.user_id].activity_log), ret'.choice)
          /\ \A d \in DOMAIN users'[ret'.user_id].activity_log :
                 users'[ret'.user_id].activity_log[d] # <<>>]_vars

\* On the first date of the log the number listed is the index popped, and
\* there the handler does remove the chosen activity.
DeleteRemovesChosenOnFirstDate ==
    [][(/\ ret'.op = "delete_activity_input"
        /\ ret'.choice <= Len(users[ret'.user_id].activity_log[
                                 activities_list(users[ret'.user_id].activity_log)[1].date]))
       => /\ err' = "none"
          /\ activities_list(users'[ret'.user_id].activity_log)
                 = RemoveAt(activities_list(users[ret'.user_id].activity_log), ret'.choice)
          /\ \A d \in DOMAIN users'[ret'.user_id].activity_log :
                 users'[ret'.user_id].activity_log[d] # <<>>]_vars

\* the identities of the activities a user logged, in logging order
LoggedAids(user_id) == sorted({a.aid : a \in {b \in logged : b.user_id = user_id}})

\* the identities of the activities a user logged on a date, in logging order
LoggedAidsOn(user_id, date) ==
    sorted({a.aid : a \in {b \in logged : b.user_id = user_id /\ b.date = date}})

Min(a, b) == IF a <= b THEN a ELSE b

\* C20: after any sequence of log_activity_input operations a user's
\* recent_activities holds at most 10 entries and is exactly the last
\* min(10, n) of the n activities the user logged, in logging order; and
\* every logged activity was appended to the end of the list of the date it
\* was logged on, the earlier entries of that date kept.
C20_RecentIsLastTenAndLogAppends ==
    \A u \in DOMAIN users :
        LET n == Len(LoggedAids(u))
            recent == [k \in DOMAIN users[u].recent_activities |->
                          users[u].recent_activities[k].aid]
            log == users[u].activity_log
        IN /\ Len(recent) <= 10
           /\ recent = SubSeq(LoggedAids(u), n - Min(10, n) + 1, n)
           /\ DOMAIN log = {a.date : a \in {b \in logged : b.user_id = u}}
           /\ \A d \in DOMAIN log :
                  [k \in DOMAIN log[d] |-> log[d][k].aid] = LoggedAidsOn(u, d)

\* C20 witness: an 11th activity was logged, on a later day than the first,
\* and the first is no longer among the recent activities
C20_Witness ==
    \E u \in DOMAIN users :
        /\ Len(LoggedAids(u)) = 11
        /\ Len(users[u].recent_activities) = 10
        /\ users[u].recent_activities[1].aid = LoggedAids(u)[2]
        /\ Cardinality(DOMAIN users[u].activity_log) >= 2

\* C21: the diet plan is maximal whenever phase 2 runs: if the calories of
\* phase 1 are strictly below target_calories, then every meal of
\* meals_database that is not in the returned plan has calories c with
\* plan total + c > target_calories * 1.1: no meal left out could still be
\* added within the 10% allowance.
C21_DietPlanMaximal ==
    (/\ ret.op = "greedy_diet_planner"
     /\ SumSet(Range(Phase1Plan), CaloriesOf) < ret.target_calories)
    => \A m \in DOMAIN meals_database \ Range(ret.val) :
           10 * (PlanCalories(ret.val, Len(ret.val)) + CaloriesOf[m])
               > 11 * ret.target_calories

\* C21 witness: phase 2 ran and added a meal, and a meal that alone is within
\* the allowance was left out, one with the fields of a meal of the plan
C21_Witness ==
    /\ ret.op = "greedy_diet_planner"
    /\ SumSet(Range(Phase1Plan), CaloriesOf) < ret.target_calories
    /\ Len(ret.val) > Len(Phase1Plan)
    /\ \E m \in DOMAIN meals_database \ Range(ret.val) :
           /\ 10 * CaloriesOf[m] <= 11 * ret.target_calories
           /\ \E a \in Range(ret.val) : meals_database[a] = meals_database[m]

====
